---- MODULE Spec2Model ----
(***************************************************************************)
(* The layout pass of CkipProcessor (src/src/models/ckip_processor.py):    *)
(* _generate_pages packs tokens into lines and lines into pages,           *)
(* _add_entities_to_pages projects the entity spans onto the pages.        *)
(* Texts are sequences of one-character strings, so len(s) is Len(s) and   *)
(* s + t is s \o t.                                                        *)
(* Around the pass: the layout document of create_layout_json and          *)
(* process_file_txt, the text of _generate_txt_content, and                *)
(* TextProcessor.format_text (src/src/models/text_processor.py).           *)
(***************************************************************************)
EXTENDS Integers, Sequences, FiniteSets, TLC

\* ------------------------------------------------------------------ bounds
MaxTokens == 3
MaxTokenLen == 2
MaxStart == 1
MaxCharsPerLine == 2
MaxLinesPerPage == 2
MaxEntities == 1
MaxPos == 3
MaxTextLen == 3
MaxLineLength == 2
MaxPasses == 2
MaxSourceLen == 3
MaxWords == 2

\* The defaults set by CkipProcessor.__init__.
DefaultCharsPerLine == 35
DefaultLinesPerPage == 18

\* The default of format_text's max_line_length.
DefaultMaxLineLength == 80

\* ------------------------------------------------------------------ data
\* self.no_break_punctuation, as texts. A full-width mark is written by its name
\* (module text is ASCII): "fw," is U+FF0C, "fw." is U+3002, and so on.
no_break_punctuation ==
    { <<c>> : c \in {",", "fw,", ".", "fw.", "!", "fw!", "?", "fw?", ";", "fw;", ":", "fw:"} }

Letters == <<"a", "b", "c", "d", "e", "f">>

\* The word of n letters "ab...".
Word(n) == [k \in 1..n |-> Letters[k]]

\* The token texts of the model: a word of each length (the segmenter gives no
\* empty word).
TokenTexts == { Word(n) : n \in 1..MaxTokenLen }

\* TokenInfo(text, pos, start, end, is_entity, entity_type)
TokenInfo(text, start) ==
    [text |-> text, pos |-> "Na", start |-> start, end |-> start + Len(text),
     is_entity |-> FALSE, entity_type |-> "None"]

Tokens == { TokenInfo(t, s) : t \in TokenTexts, s \in 0..MaxStart }

\* EntityInfo(text, type, start, end); the text of an entity is as long as its span
EntityInfo(type, start, end) ==
    [text |-> Word(IF end > start THEN end - start ELSE 0), type |-> type,
     start |-> start, end |-> end]

EntityTypes == {"PERSON"}

Entities == { EntityInfo(ty, s, e) : ty \in EntityTypes, s \in 0..MaxPos, e \in 0..MaxPos }

SeqsUpTo(S, n) == UNION { [1..k -> S] : k \in 0..n }

\* The token streams of the packing runs: any texts with any start offsets
\* (sorted or not, contiguous or not).
TokenStreams == SeqsUpTo(Tokens, MaxTokens)

\* n tokens of the same text, each starting where the one before ends, the first
\* at offset 0.
ContiguousStream(text, n) == [k \in 1..n |-> TokenInfo(text, (k - 1) * Len(text))]

\* The token streams of the projection runs.
UniformStreams == { ContiguousStream(t, n) : t \in TokenTexts, n \in 0..MaxTokens }

EntityLists == SeqsUpTo(Entities, MaxEntities)

\* The entity lists of two entities.
EntityPairs == [1..2 -> Entities]

\* The tokens of a sequence of texts, each starting where the one before ends, the
\* first at offset 0.
RECURSIVE StreamOf(_)
StreamOf(texts) ==
    IF texts = <<>> THEN <<>>
    ELSE LET before == StreamOf(SubSeq(texts, 1, Len(texts) - 1))
         IN Append(before,
                   TokenInfo(texts[Len(texts)],
                             IF before = <<>> THEN 0 ELSE before[Len(before)].end))

\* The token streams of the punctuation runs: words and commas.
PunctuationStreams ==
    { StreamOf(texts) : texts \in SeqsUpTo(TokenTexts \cup {<<",">>}, MaxTokens) }

\* PageLayout(page_id, lines, entities, total_chars = 0)
PageLayout(page_id) ==
    [page_id |-> page_id, lines |-> <<>>, entities |-> <<>>, total_chars |-> 0]

\* ------------------------------------------------------------------ state
VARIABLES
    chars_per_line,       \* self.chars_per_line
    lines_per_page,       \* self.lines_per_page
    tokens,               \* the token list handed to _generate_pages
    entities,             \* the entity list handed to _generate_pages
    pc,                   \* "new", "configured", "loop", "project", "done"
    i,                    \* index of the next token (0-based, as in the code)
    pages,                \* pages
    current_page,         \* current_page
    current_line,         \* current_line
    current_line_tokens,  \* current_line_tokens
    line_offset,          \* line_offset
    entity_positions,     \* entity_positions
    page_idx,             \* position of the projector's loop over pages (0-based)
    outcome,              \* "none", "returned", "error"
    layout_data,          \* layout_data of create_layout_json / process_file_txt
    txt_lines,            \* lines, the list built by _generate_txt_content
    txt_content,          \* what _generate_txt_content returned
    fmt_text,             \* format_text: text
    max_line_length,      \* format_text: max_line_length
    fmt_result,           \* format_text: the returned string, once returned
    other,                \* the frame of a second pass on the same instance
    first_pass,           \* the pages returned by the instance's first pass
    passes,               \* the number of passes started on the instance
    annotation            \* _build_tokens: text, ws, pos, ner; built once it returned

vars == <<chars_per_line, lines_per_page, tokens, entities, pc, i, pages,
          current_page, current_line, current_line_tokens, line_offset,
          entity_positions, page_idx, outcome, layout_data, txt_lines,
          txt_content, fmt_text, max_line_length, fmt_result, other,
          first_pass, passes, annotation>>

inputs == <<tokens, entities>>
config == <<chars_per_line, lines_per_page>>
locals == <<i, pages, current_page, current_line, current_line_tokens,
            line_offset, entity_positions, page_idx>>
document == <<layout_data, txt_lines, txt_content>>
formatting == <<fmt_text, max_line_length, fmt_result>>
reuse == <<other, first_pass, passes>>
extras == <<document, formatting, reuse, annotation>>

\* ------------------------------------------------------------------ helpers
\* The dict built by the loop over entities and range(entity.start, entity.end):
\* a later entity overwrites an earlier one at the same position.
RECURSIVE EntityPositions(_)
EntityPositions(es) ==
    IF es = <<>> THEN <<>>
    ELSE LET e == es[Len(es)]
             before == EntityPositions(SubSeq(es, 1, Len(es) - 1))
             span == e.start..(e.end - 1)
         IN [p \in (DOMAIN before) \cup span |-> IF p \in span THEN e ELSE before[p]]

\* ShouldBreakLine keeping a punctuation mark on the line it follows.
ShouldBreakLineKeepsPunctuation(line, token, line_tokens) ==
    /\ Len(line) + Len(token.text) > chars_per_line
    /\ ~(token.text \in no_break_punctuation /\ Len(line) > 0)

\* ShouldBreakLine breaking only for a token that fits a line.
ShouldBreakLineFittingOnly(line, token, line_tokens) ==
    /\ Len(line) + Len(token.text) > chars_per_line
    /\ Len(token.text) <= chars_per_line

\* ShouldBreakLine breaking already when the line would be exactly full.
ShouldBreakLineEarly(line, token, line_tokens) ==
    Len(line) + Len(token.text) >= chars_per_line

\* ShouldBreakLine with the capacity test off by one.
ShouldBreakLineLate(line, token, line_tokens) ==
    Len(line) + Len(token.text) > chars_per_line + 1

\* _should_break_line(current_line, token, current_tokens)
ShouldBreakLine(line, token, line_tokens) ==
    IF Len(line) + Len(token.text) > chars_per_line THEN TRUE
    ELSE IF token.text \in no_break_punctuation /\ Len(line) = 0 THEN FALSE
    ELSE FALSE

\* NextLine losing the token that caused the break.
NextLineDropsToken(line, token, break) == IF break THEN <<>> ELSE line \o token.text

\* current_line after the token is added: a break starts the line anew
NextLine(line, token, break) == (IF break THEN <<>> ELSE line) \o token.text

\* NextLineTokens keeping the tokens of the closed line.
NextLineTokensKeepsOld(line_tokens, token, break) == Append(line_tokens, token)

\* current_line_tokens after the token is added
NextLineTokens(line_tokens, token, break) ==
    Append(IF break THEN <<>> ELSE line_tokens, token)

\* PageFull turning the page one line late.
PageFullLate(page) == Len(page.lines) > lines_per_page

\* the test for a page turn
PageFull(page) == Len(page.lines) >= lines_per_page

\* NewPage numbering the page by the count of closed pages.
NewPageSameId(closed) == PageLayout(Len(closed))

\* the page started after a page turn, given the pages closed so far
NewPage(closed) == PageLayout(Len(closed) + 1)

\* LineInfo taking the offset from the line's first token.
LineInfoTokenStart(text, offset, line_tokens) ==
    [text |-> text, offset |-> line_tokens[1].start, length |-> Len(text),
     tokens |-> line_tokens]

\* line_info of a closed line
LineInfo(text, offset, line_tokens) ==
    [text |-> text, offset |-> offset, length |-> Len(text), tokens |-> line_tokens]

\* AppendLine counting the tokens of the line, not its characters.
AppendLineCountsTokens(page, line) ==
    [page EXCEPT !.lines = Append(@, line), !.total_chars = @ + Len(line.tokens)]

\* page with one more line
AppendLine(page, line) ==
    [page EXCEPT !.lines = Append(@, line), !.total_chars = @ + line.length]

\* list.index(x): the 0-based position of the first element equal to x
IndexOf(s, x) == (CHOOSE k \in 1..Len(s) : s[k] = x /\ \A j \in 1..(k - 1) : s[j] # x) - 1

\* EntityMatchesLine as the overlap of the two ranges.
EntityMatchesLineOverlap(entity, line) ==
    entity.start < line.offset + line.length /\ entity.end > line.offset

\* EntityMatchesLine without the test of the entity's end.
EntityMatchesLineStartOnly(entity, line) ==
    entity.start >= line.offset /\ entity.start < line.offset + line.length

\* EntityMatchesLine without the test of the entity's start.
EntityMatchesLineEndOnly(entity, line) ==
    entity.end > line.offset /\ entity.end <= line.offset + line.length

\* the test of an entity against a line
EntityMatchesLine(entity, line) ==
    LET line_start == line.offset
        line_end == line_start + line.length
    IN \/ (entity.start >= line_start /\ entity.start < line_end)
       \/ (entity.end > line_start /\ entity.end <= line_end)

\* EntityRecord clipping the relative end to the line.
EntityRecordClipped(entity, line, page) ==
    [text |-> entity.text, type |-> entity.type,
     start |-> entity.start - line.offset,
     end |-> IF entity.end - line.offset > line.length
             THEN line.length ELSE entity.end - line.offset,
     line_idx |-> IndexOf(page.lines, line)]

\* entity_info of an entity matched to a line of a page
EntityRecord(entity, line, page) ==
    [text |-> entity.text, type |-> entity.type,
     start |-> entity.start - line.offset, end |-> entity.end - line.offset,
     line_idx |-> IndexOf(page.lines, line)]

\* the records of one entity for every matching line among the first n of a page
RECURSIVE EveryLineRecords(_, _, _)
EveryLineRecords(page, entity, n) ==
    IF n = 0 THEN <<>>
    ELSE EveryLineRecords(page, entity, n - 1)
             \o (IF EntityMatchesLine(entity, page.lines[n])
                 THEN <<EntityRecord(entity, page.lines[n], page)>> ELSE <<>>)

\* PageEntities without the break after the first matching line.
RECURSIVE PageEntitiesEveryLine(_, _)
PageEntitiesEveryLine(page, es) ==
    IF es = <<>> THEN <<>>
    ELSE PageEntitiesEveryLine(page, SubSeq(es, 1, Len(es) - 1))
             \o EveryLineRecords(page, es[Len(es)], Len(page.lines))

\* page_entities of one page: for each entity in order, the record of the first
\* matching line of the page, if any
RECURSIVE PageEntities(_, _)
PageEntities(page, es) ==
    IF es = <<>> THEN <<>>
    ELSE LET entity == es[Len(es)]
             before == PageEntities(page, SubSeq(es, 1, Len(es) - 1))
             hits == { k \in 1..Len(page.lines) : EntityMatchesLine(entity, page.lines[k]) }
         IN IF hits = {} THEN before
            ELSE LET first == CHOOSE k \in hits : \A j \in hits : k <= j
                 IN Append(before, EntityRecord(entity, page.lines[first], page))

\* TotalChars taking the count of the last page only.
TotalCharsLastPage(ps) == IF ps = <<>> THEN 0 ELSE ps[Len(ps)].total_chars

\* sum(page.total_chars for page in pages)
RECURSIVE TotalChars(_)
TotalChars(ps) ==
    IF ps = <<>> THEN 0
    ELSE TotalChars(SubSeq(ps, 1, Len(ps) - 1)) + ps[Len(ps)].total_chars

\* the dict built as layout_data; the title is written in ASCII
LayoutData(ps) ==
    [metadata |-> [title |-> "Intelligent typesetting text",
                   total_pages |-> Len(ps),
                   chars_per_line |-> chars_per_line,
                   lines_per_page |-> lines_per_page,
                   total_chars |-> TotalChars(ps)],
     pages |-> ps]

\* str(n) for n >= 0, and n zero-padded to a width
Digits == <<"0", "1", "2", "3", "4", "5", "6", "7", "8", "9">>

RECURSIVE Str(_)
Str(n) == IF n < 10 THEN <<Digits[n + 1]>> ELSE Str(n \div 10) \o <<Digits[(n % 10) + 1]>>

\* s * n for a one-character string s: empty when n <= 0
Repeat(c, n) == [k \in 1..n |-> c]

\* what _generate_txt_content appends to lines for one page; "di" and "ye" name the
\* two characters of the page heading (U+7B2C, U+9875)
TxtPage(page) ==
    (IF page.page_id > 1
     THEN << <<>>,
             Repeat("=", chars_per_line),
             <<"di", " ">> \o Str(page.page_id) \o <<" ", "ye">>,
             Repeat("=", chars_per_line),
             <<>> >>
     ELSE <<>>)
    \o [k \in 1..Len(page.lines) |-> page.lines[k].text]
    \o << <<>> >>

\* lines at the end of _generate_txt_content
RECURSIVE TxtLines(_)
TxtLines(ps) ==
    IF ps = <<>> THEN <<>>
    ELSE TxtLines(SubSeq(ps, 1, Len(ps) - 1)) \o TxtPage(ps[Len(ps)])

\* str.split(sep) for a one-character sep out of seps: the pieces between the
\* separators, empty ones included
RECURSIVE Split(_, _)
Split(s, seps) ==
    IF \A k \in 1..Len(s) : s[k] \notin seps THEN <<s>>
    ELSE LET k == CHOOSE k \in 1..Len(s) :
                      s[k] \in seps /\ \A j \in 1..(k - 1) : s[j] \notin seps
         IN <<SubSeq(s, 1, k - 1)>> \o Split(SubSeq(s, k + 1, Len(s)), seps)

\* re.split(r'[seps]+', s): the pieces between the maximal runs of separators
RECURSIVE ReSplit(_, _)
ReSplit(s, seps) ==
    IF \A k \in 1..Len(s) : s[k] \notin seps THEN <<s>>
    ELSE LET k == CHOOSE k \in 1..Len(s) :
                      s[k] \in seps /\ \A j \in 1..(k - 1) : s[j] \notin seps
             after == { j \in (k + 1)..Len(s) : s[j] \notin seps }
             j == IF after = {} THEN Len(s) + 1
                  ELSE CHOOSE m \in after : \A n \in after : m <= n
         IN <<SubSeq(s, 1, k - 1)>> \o ReSplit(SubSeq(s, j, Len(s)), seps)

\* sep.join(items)
RECURSIVE Join(_, _)
Join(items, sep) ==
    IF items = <<>> THEN <<>>
    ELSE IF Len(items) = 1 THEN items[1]
    ELSE Join(SubSeq(items, 1, Len(items) - 1), sep) \o sep \o items[Len(items)]

Whitespace == {" ", "\n", "\t"}

\* s.strip()
Strip(s) ==
    LET kept == { k \in 1..Len(s) : s[k] \notin Whitespace }
    IN IF kept = {} THEN <<>>
       ELSE SubSeq(s, CHOOSE k \in kept : \A j \in kept : k <= j,
                      CHOOSE k \in kept : \A j \in kept : k >= j)

\* the characters of r'[.!?...]' with the three full-width marks, by name
SentenceEnds == {".", "!", "?", "fw.", "fw!", "fw?"}

\* [s.strip() for s in sentences if s.strip()]
RECURSIVE StripAll(_)
StripAll(pieces) ==
    IF pieces = <<>> THEN <<>>
    ELSE StripAll(SubSeq(pieces, 1, Len(pieces) - 1))
             \o (IF Strip(pieces[Len(pieces)]) = <<>> THEN <<>>
                 ELSE <<Strip(pieces[Len(pieces)])>>)

\* TextProcessor.split_sentences
split_sentences(t) == IF t = <<>> THEN <<>> ELSE StripAll(ReSplit(t, SentenceEnds))

\* the loop of format_text over the sentences, and the append of the last line
RECURSIVE FormatLines(_, _, _, _)
FormatLines(sentences, formatted_lines, line, max) ==
    IF sentences = <<>>
    THEN (IF line # <<>> THEN Append(formatted_lines, Strip(line)) ELSE formatted_lines)
    ELSE LET sentence == Head(sentences)
         IN IF Len(line) + Len(sentence) <= max
            THEN FormatLines(Tail(sentences), formatted_lines,
                             line \o sentence \o <<".", " ">>, max)
            ELSE FormatLines(Tail(sentences),
                             IF line # <<>> THEN Append(formatted_lines, Strip(line))
                             ELSE formatted_lines,
                             sentence \o <<".", " ">>, max)

\* TextProcessor.format_text
format_text(t, max) ==
    IF t = <<>> THEN <<>>
    ELSE Join(FormatLines(split_sentences(t), <<>>, <<>>, max), <<"\n">>)

\* The texts handed to format_text.
TextChars == {"a", ".", " ", "\n"}
Texts == SeqsUpTo(TextChars, MaxTextLen)

\* Python values of the kinds a return can give here
None == [type |-> "NoneType", value |-> <<>>]
StrValue(chars) == [type |-> "str", value |-> chars]
Unset == [type |-> "unset", value |-> <<>>]

\* ------------------------------------------------------------------ actions
\* Find searching the whole text, not from current_pos on.
FindFromStart(t, word, from) ==
    LET hits == { p \in 0..(Len(t) - Len(word)) : SubSeq(t, p + 1, p + Len(word)) = word }
    IN IF hits = {} THEN -1 ELSE CHOOSE p \in hits : \A q \in hits : p <= q

\* text.find(word, current_pos): the lowest index from current_pos on at which the
\* word stands in the text, -1 if there is none
Find(t, word, from) ==
    LET hits == { p \in from..(Len(t) - Len(word)) : SubSeq(t, p + 1, p + Len(word)) = word }
    IN IF hits = {} THEN -1 ELSE CHOOSE p \in hits : \A q \in hits : p <= q

\* a recognized entity as the NER driver gives it: word, ner (the type), idx
NerToken(word, type, start, end) == [word |-> word, ner |-> type, idx |-> <<start, end>>]

\* entity_map: (idx[0], idx[1]) -> ner, a later entity replacing an earlier one
\* with the same idx
RECURSIVE entity_map(_)
entity_map(ner) ==
    IF ner = <<>> THEN <<>>
    ELSE LET last == ner[Len(ner)]
             before == entity_map(SubSeq(ner, 1, Len(ner) - 1))
         IN [key \in (DOMAIN before) \cup {last.idx} |->
                 IF key = last.idx THEN last.ner ELSE before[key]]

\* InMap looking only at the start of the span.
InMapByStart(map, start, end) == \E key \in DOMAIN map : key[1] = start

\* (start, end) in entity_map
InMap(map, start, end) == <<start, end>> \in DOMAIN map

\* entity_map.get((start, end)): None when the key is absent
MapGet(map, start, end) ==
    IF <<start, end>> \in DOMAIN map THEN map[<<start, end>>] ELSE "None"

\* the loop of _build_tokens over zip(ws, pos)
RECURSIVE BuildTokensLoop(_, _, _, _)
BuildTokensLoop(t, words, tags, map) ==
    IF words = <<>> \/ tags = <<>> THEN <<>>
    ELSE LET n == IF Len(words) <= Len(tags) THEN Len(words) ELSE Len(tags)
             before == BuildTokensLoop(t, SubSeq(words, 1, n - 1), SubSeq(tags, 1, n - 1), map)
             current_pos == IF before = <<>> THEN 0 ELSE before[Len(before)].end
             word == words[n]
             found == Find(t, word, current_pos)
             start == IF found = -1 THEN current_pos ELSE found
             end == start + Len(word)
         IN Append(before,
                   [text |-> word, pos |-> tags[n], start |-> start, end |-> end,
                    is_entity |-> InMap(map, start, end),
                    entity_type |-> MapGet(map, start, end)])

\* _build_tokens(text, ws, pos, ner)
build_tokens(t, words, tags, ner) == BuildTokensLoop(t, words, tags, entity_map(ner))

\* The arguments of _build_tokens: a source text over two letters, a word list, one
\* tag per word, and recognized entities with idx[0] < idx[1].
SourceChars == {"a", "b"}
SourceTexts == SeqsUpTo(SourceChars, MaxSourceLen)
SourceWords == {<<"a">>, <<"b">>, <<"a", "b">>}
WordLists == SeqsUpTo(SourceWords, MaxWords)
NerTokens ==
    { NerToken(Word(e - s), ty, s, e) :
          ty \in EntityTypes, s \in 0..MaxPos, e \in 0..MaxPos }
NerLists == SeqsUpTo({ x \in NerTokens : x.idx[1] < x.idx[2] }, MaxEntities)

Annotation(t, words, tags, ner) ==
    [text |-> t, ws |-> words, pos |-> tags, ner |-> ner, built |-> FALSE]

Annotations ==
    { Annotation(t, words, [k \in DOMAIN words |-> "Na"], ner) :
          t \in SourceTexts, words \in WordLists, ner \in NerLists }

\* no call of _build_tokens to come
NoAnnotation == Annotation(<<>>, <<>>, <<>>, <<>>)

\* The locals of one call of _generate_pages and its position.
Frame(fpc, fi, fpages, fpage, fline, fline_tokens, foffset, fpositions, fidx) ==
    [pc |-> fpc, i |-> fi, pages |-> fpages, current_page |-> fpage,
     current_line |-> fline, current_line_tokens |-> fline_tokens,
     line_offset |-> foffset, entity_positions |-> fpositions, page_idx |-> fidx]

\* no second call in progress
IdleFrame == Frame("idle", 0, <<>>, PageLayout(1), <<>>, <<>>, 0, <<>>, 0)

\* A processor as __init__ leaves it, the arguments of the pass to come and the
\* arguments of the format_text call to come.
InitEvery(streams, entity_lists, texts, lengths, annotations) ==
    /\ chars_per_line = DefaultCharsPerLine
    /\ lines_per_page = DefaultLinesPerPage
    /\ tokens \in streams
    /\ entities \in entity_lists
    /\ pc = "new"
    /\ i = 0
    /\ pages = <<>>
    /\ current_page = PageLayout(1)
    /\ current_line = <<>>
    /\ current_line_tokens = <<>>
    /\ line_offset = 0
    /\ entity_positions = <<>>
    /\ page_idx = 0
    /\ outcome = "none"
    /\ layout_data = <<>>
    /\ txt_lines = <<>>
    /\ txt_content = Unset
    /\ fmt_text \in texts
    /\ max_line_length \in lengths
    /\ fmt_result = Unset
    /\ other = IdleFrame
    /\ first_pass = [set |-> FALSE, pages |-> <<>>]
    /\ passes = 0
    /\ annotation \in annotations

\* Runs without a call of _build_tokens.
InitAll(streams, entity_lists, texts, lengths) ==
    InitEvery(streams, entity_lists, texts, lengths, {NoAnnotation})

\* Layout runs: format_text is not called.
InitWith(streams, entity_lists) ==
    InitAll(streams, entity_lists, {<<>>}, {DefaultMaxLineLength})

\* Packing runs: every token stream, no entity.
Init == InitWith(TokenStreams, {<<>>})

\* Projection runs: contiguous token streams, every entity list.
InitProjection == InitWith(UniformStreams, EntityLists)

\* Punctuation runs: contiguous streams of words and commas, no entity.
InitPunctuation == InitWith(PunctuationStreams, {<<>>})

\* Formatting runs: every text and every max_line_length, no layout pass.
InitFormat == InitAll({<<>>}, {<<>>}, Texts, 0..MaxLineLength)

\* Reuse runs: contiguous streams, no entity or one entity over the whole range.
InitReuse == InitWith(UniformStreams, {<<>>, <<EntityInfo("PERSON", 0, MaxPos)>>})

\* Pair runs: contiguous token streams, every list of two entities.
InitPairs == InitWith(UniformStreams, EntityPairs)

\* Annotation runs: every source text, word list and entity list, no token yet.
InitBuild == InitEvery({<<>>}, {<<>>}, {<<>>}, {DefaultMaxLineLength}, Annotations)

\* ckip_typeset: processor.chars_per_line = ..., processor.lines_per_page = ...
Configure ==
    /\ pc = "new"
    /\ chars_per_line' \in 0..MaxCharsPerLine
    /\ lines_per_page' \in 0..MaxLinesPerPage
    /\ pc' = "configured"
    /\ UNCHANGED <<inputs, locals, outcome, extras>>

\* _generate_pages, up to the loop over the tokens
Call ==
    /\ pc \in {"new", "configured"}
    /\ pages' = <<>>
    /\ current_page' = PageLayout(1)
    /\ current_line' = <<>>
    /\ current_line_tokens' = <<>>
    /\ line_offset' = 0
    /\ entity_positions' = EntityPositions(entities)
    /\ i' = 0
    /\ pc' = "loop"
    /\ UNCHANGED <<inputs, config, page_idx, outcome, extras>>

\* LoopStep passing over the token after the one that caused a break.
LoopStepSkipsAfterBreak ==
    /\ pc = "loop"
    /\ i < Len(tokens)
    /\ LET token == tokens[i + 1]
           break == ShouldBreakLine(current_line, token, current_line_tokens)
           emit == break /\ current_line # <<>>
           page1 == IF emit
                    THEN AppendLine(current_page,
                                    LineInfo(current_line, line_offset, current_line_tokens))
                    ELSE current_page
           turn == break /\ PageFull(page1)
           pages1 == IF turn THEN Append(pages, page1) ELSE pages
       IN /\ line_offset' = IF emit THEN line_offset + Len(current_line) ELSE line_offset
          /\ pages' = pages1
          /\ current_page' = IF turn THEN NewPage(pages1) ELSE page1
          /\ current_line' = NextLine(current_line, token, break)
          /\ current_line_tokens' = NextLineTokens(current_line_tokens, token, break)
    /\ i' = IF ShouldBreakLine(current_line, tokens[i + 1], current_line_tokens)
            THEN i + 2 ELSE i + 1
    /\ UNCHANGED <<inputs, config, pc, entity_positions, page_idx, outcome, extras>>

\* LoopStep closing the line at a break also when the line is empty.
LoopStepEmitsEmpty ==
    /\ pc = "loop"
    /\ i < Len(tokens)
    /\ LET token == tokens[i + 1]
           break == ShouldBreakLine(current_line, token, current_line_tokens)
           emit == break
           page1 == IF emit
                    THEN AppendLine(current_page,
                                    LineInfo(current_line, line_offset, current_line_tokens))
                    ELSE current_page
           turn == break /\ PageFull(page1)
           pages1 == IF turn THEN Append(pages, page1) ELSE pages
       IN /\ line_offset' = IF emit THEN line_offset + Len(current_line) ELSE line_offset
          /\ pages' = pages1
          /\ current_page' = IF turn THEN NewPage(pages1) ELSE page1
          /\ current_line' = NextLine(current_line, token, break)
          /\ current_line_tokens' = NextLineTokens(current_line_tokens, token, break)
    /\ i' = i + 1
    /\ UNCHANGED <<inputs, config, pc, entity_positions, page_idx, outcome, extras>>

\* one iteration of the loop over the tokens
LoopStep ==
    /\ pc = "loop"
    /\ i < Len(tokens)
    /\ LET token == tokens[i + 1]
           break == ShouldBreakLine(current_line, token, current_line_tokens)
           emit == break /\ current_line # <<>>
           page1 == IF emit
                    THEN AppendLine(current_page,
                                    LineInfo(current_line, line_offset, current_line_tokens))
                    ELSE current_page
           turn == break /\ PageFull(page1)
           pages1 == IF turn THEN Append(pages, page1) ELSE pages
       IN /\ line_offset' = IF emit THEN line_offset + Len(current_line) ELSE line_offset
          /\ pages' = pages1
          /\ current_page' = IF turn THEN NewPage(pages1) ELSE page1
          /\ current_line' = NextLine(current_line, token, break)
          /\ current_line_tokens' = NextLineTokens(current_line_tokens, token, break)
    /\ i' = i + 1
    /\ UNCHANGED <<inputs, config, pc, entity_positions, page_idx, outcome, extras>>

\* Finish leaving the loop before the last token is consumed.
FinishEarly ==
    /\ pc = "loop"
    /\ LET page1 == IF current_line # <<>>
                    THEN AppendLine(current_page,
                                    LineInfo(current_line, line_offset, current_line_tokens))
                    ELSE current_page
       IN /\ current_page' = page1
          /\ pages' = IF page1.lines # <<>> THEN Append(pages, page1) ELSE pages
    /\ page_idx' = 0
    /\ pc' = "project"
    /\ UNCHANGED <<inputs, config, i, current_line, current_line_tokens, line_offset,
                   entity_positions, outcome, extras>>

\* after the loop: the last line and the last page
Finish ==
    /\ pc = "loop"
    /\ i >= Len(tokens)
    /\ LET page1 == IF current_line # <<>>
                    THEN AppendLine(current_page,
                                    LineInfo(current_line, line_offset, current_line_tokens))
                    ELSE current_page
       IN /\ current_page' = page1
          /\ pages' = IF page1.lines # <<>> THEN Append(pages, page1) ELSE pages
    /\ page_idx' = 0
    /\ pc' = "project"
    /\ UNCHANGED <<inputs, config, i, current_line, current_line_tokens, line_offset,
                   entity_positions, outcome, extras>>

\* ProjectPage rewriting the input entities to the page's first line offset.
ProjectPageInPlace ==
    /\ pc = "project"
    /\ page_idx < Len(pages)
    /\ pages' = [pages EXCEPT ![page_idx + 1].entities =
                     PageEntities(pages[page_idx + 1], entities)]
    /\ page_idx' = page_idx + 1
    /\ entities' = [j \in DOMAIN entities |->
                       IF pages[page_idx + 1].lines = <<>> THEN entities[j]
                       ELSE [entities[j] EXCEPT
                                !.start = @ - pages[page_idx + 1].lines[1].offset,
                                !.end = @ - pages[page_idx + 1].lines[1].offset]]
    /\ UNCHANGED <<tokens, config, pc, i, current_page, current_line,
                   current_line_tokens, line_offset, entity_positions, outcome, extras>>

\* _add_entities_to_pages: one iteration of the loop over the pages
ProjectPage ==
    /\ pc = "project"
    /\ page_idx < Len(pages)
    /\ pages' = [pages EXCEPT ![page_idx + 1].entities =
                     PageEntities(pages[page_idx + 1], entities)]
    /\ page_idx' = page_idx + 1
    /\ UNCHANGED <<inputs, config, pc, i, current_page, current_line,
                   current_line_tokens, line_offset, entity_positions, outcome, extras>>

\* return pages
Return ==
    /\ pc = "project"
    /\ page_idx >= Len(pages)
    /\ pc' = "done"
    /\ outcome' = "returned"
    /\ UNCHANGED <<inputs, config, locals, extras>>

\* process_file_txt: txt_content = self._generate_txt_content(pages). The function
\* builds lines and ends without a return statement.
GenerateTxt ==
    /\ pc = "done"
    /\ txt_lines' = TxtLines(pages)
    /\ txt_content' = None
    /\ pc' = "txt"
    /\ UNCHANGED <<inputs, config, locals, outcome, layout_data, formatting, reuse,
                   annotation>>

\* process_file_txt: f.write(txt_content) raises TypeError for a value that is not
\* a str; the except clause logs and raises again.
WriteTxt ==
    /\ pc = "txt"
    /\ IF txt_content.type = "str"
       THEN pc' = "written" /\ UNCHANGED outcome
       ELSE pc' = "failed" /\ outcome' = "error"
    /\ UNCHANGED <<inputs, config, locals, extras>>

\* create_layout_json after _generate_pages, and process_file_txt after the write:
\* layout_data = {...}
BuildLayout ==
    /\ pc \in {"done", "written"}
    /\ layout_data' = LayoutData(pages)
    /\ pc' = "built"
    /\ UNCHANGED <<inputs, config, locals, outcome, txt_lines, txt_content,
                   formatting, reuse, annotation>>

Next == Configure \/ Call \/ LoopStep \/ Finish \/ ProjectPage \/ Return

\* a call of format_text(text, max_line_length)
Format ==
    /\ fmt_result.type = "unset"
    /\ fmt_result' = StrValue(format_text(fmt_text, max_line_length))
    /\ UNCHANGED <<inputs, config, locals, pc, outcome, document, fmt_text,
                   max_line_length, reuse, annotation>>

\* the frame of the call in progress
ActiveFrame ==
    Frame(pc, i, pages, current_page, current_line, current_line_tokens, line_offset,
          entity_positions, page_idx)

\* ResumedLineOffset with line_offset kept on the instance, not in the call.
ResumedLineOffsetOfInstance(frame) == line_offset

\* line_offset is a local of the call: a resumed call finds its own
ResumedLineOffset(frame) == frame.line_offset

\* the locals of _generate_pages at its start
StartPass ==
    /\ pages' = <<>>
    /\ current_page' = PageLayout(1)
    /\ current_line' = <<>>
    /\ current_line_tokens' = <<>>
    /\ line_offset' = 0
    /\ entity_positions' = EntityPositions(entities)
    /\ i' = 0
    /\ pc' = "loop"

\* a further call of _generate_pages on the instance after a call has returned;
\* the pages of the instance's first call are kept for comparison
CallAgain ==
    /\ pc = "done"
    /\ passes < MaxPasses
    /\ first_pass' = IF first_pass.set THEN first_pass
                   ELSE [set |-> TRUE, pages |-> pages]
    /\ passes' = passes + 1
    /\ StartPass
    /\ UNCHANGED <<inputs, config, page_idx, outcome, document, formatting, other,
                   annotation>>

\* a second thread calls _generate_pages on the instance while a call is in
\* progress: the call in progress is suspended
Spawn ==
    /\ first_pass.set
    /\ other.pc = "idle"
    /\ pc \in {"loop", "project"}
    /\ passes < MaxPasses
    /\ passes' = passes + 1
    /\ other' = ActiveFrame
    /\ StartPass
    /\ UNCHANGED <<inputs, config, page_idx, outcome, document, formatting,
                   first_pass, annotation>>

\* the scheduler suspends the call in progress and resumes the other one
Switch ==
    /\ other.pc \notin {"idle", "done"}
    /\ other' = ActiveFrame
    /\ pc' = other.pc
    /\ i' = other.i
    /\ pages' = other.pages
    /\ current_page' = other.current_page
    /\ current_line' = other.current_line
    /\ current_line_tokens' = other.current_line_tokens
    /\ line_offset' = ResumedLineOffset(other)
    /\ entity_positions' = other.entity_positions
    /\ page_idx' = other.page_idx
    /\ UNCHANGED <<inputs, config, outcome, document, formatting, first_pass,
                   passes, annotation>>

\* process_text: tokens = self._build_tokens(text, ws_result[0], pos_result[0],
\* ner_result[0])
BuildTokens ==
    /\ ~annotation.built
    /\ tokens' = build_tokens(annotation.text, annotation.ws, annotation.pos, annotation.ner)
    /\ annotation' = [annotation EXCEPT !.built = TRUE]
    /\ UNCHANGED <<entities, config, locals, pc, outcome, document, formatting, reuse>>

NextBuild == BuildTokens

NextFormat == Format

NextReuse == Next \/ CallAgain \/ Spawn \/ Switch

NextDocument == Next \/ GenerateTxt \/ WriteTxt \/ BuildLayout

Spec == Init /\ [][Next]_vars

SpecProjection == InitProjection /\ [][Next]_vars

SpecPunctuation == InitPunctuation /\ [][Next]_vars

SpecDocument == Init /\ [][NextDocument]_vars

SpecFormat == InitFormat /\ [][NextFormat]_vars

SpecReuse == InitReuse /\ [][NextReuse]_vars

SpecPairs == InitPairs /\ [][Next]_vars

SpecBuild == InitBuild /\ [][NextBuild]_vars

\* A called pass runs on: each statement of the sequential code is taken when it
\* is its turn.
Progress ==
    /\ WF_vars(LoopStep)
    /\ WF_vars(Finish)
    /\ WF_vars(ProjectPage)
    /\ WF_vars(Return)

\* One pass on a fresh instance, over the inputs of the reuse runs.
SpecPass == InitReuse /\ [][Next]_vars

SpecTermination == SpecPass /\ Progress

\* ------------------------------------------------------------------ claims
\* the lines of a list of pages, in page order and line order
RECURSIVE AllLines(_)
AllLines(ps) ==
    IF ps = <<>> THEN <<>>
    ELSE AllLines(SubSeq(ps, 1, Len(ps) - 1)) \o ps[Len(ps)].lines

\* the texts of a list of lines or tokens, joined
RECURSIVE ConcatText(_)
ConcatText(items) ==
    IF items = <<>> THEN <<>>
    ELSE ConcatText(SubSeq(items, 1, Len(items) - 1)) \o items[Len(items)].text

\* the lines closed so far: those of the closed pages, then those of the open page
EmittedLines ==
    AllLines(pages) \o (IF pc = "loop" THEN current_page.lines ELSE <<>>)

Done == pc = "done"

\* C1: when the pass has returned, the texts of all lines of all pages, joined in
\* page order and line order, are the texts of the input tokens joined in input
\* order: no character is dropped, duplicated or moved.
C1_RoundTrip ==
    Done => ConcatText(AllLines(pages)) = ConcatText(tokens)

\* C1 witness: a returned pass with two pages or more and a line of two tokens.
C1_Witness ==
    /\ Done
    /\ Len(pages) >= 2
    /\ \E k \in DOMAIN AllLines(pages) : Len(AllLines(pages)[k].tokens) >= 2

\* C2: with a positive chars_per_line, every closed line is at most chars_per_line
\* long unless it is one token that is itself longer than chars_per_line; a line
\* of two tokens or more is never longer than chars_per_line.
C2_Capacity ==
    chars_per_line > 0 =>
        \A k \in DOMAIN EmittedLines :
            LET line == EmittedLines[k]
            IN /\ \/ line.length <= chars_per_line
                  \/ /\ Len(line.tokens) = 1
                     /\ Len(line.tokens[1].text) > chars_per_line
               /\ Len(line.tokens) >= 2 => line.length <= chars_per_line
               /\ line.length = Len(line.text)

\* C2 witness: a returned pass that holds a line of one oversized token and
\* another line.
C2_Witness ==
    /\ Done
    /\ chars_per_line > 0
    /\ \E k \in DOMAIN AllLines(pages) :
           /\ Len(AllLines(pages)[k].tokens) = 1
           /\ AllLines(pages)[k].length > chars_per_line
    /\ Len(AllLines(pages)) >= 2

\* C3: with positive chars_per_line and lines_per_page, in the returned pages every
\* page but the last holds exactly lines_per_page lines, the last holds between 1
\* and lines_per_page lines, and there is no page exactly when there is no token.
C3_PageSize ==
    (Done /\ chars_per_line > 0 /\ lines_per_page > 0) =>
        /\ \A k \in 1..(Len(pages) - 1) : Len(pages[k].lines) = lines_per_page
        /\ pages # <<>> =>
               /\ Len(pages[Len(pages)].lines) >= 1
               /\ Len(pages[Len(pages)].lines) <= lines_per_page
        /\ pages = <<>> <=> tokens = <<>>

\* C3 witness: a returned pass whose line count is a multiple of lines_per_page,
\* with more than one page, the last one full.
C3_Witness ==
    /\ Done
    /\ chars_per_line > 0
    /\ lines_per_page > 0
    /\ Len(pages) >= 2
    /\ Len(pages[Len(pages)].lines) = lines_per_page

\* C4: the page_id of the k-th page of the page list is k, at every moment of the
\* pass and in the returned list: 1, 2, ..., total_pages.
C4_PageIds ==
    \A k \in DOMAIN pages : pages[k].page_id = k

\* C4 witness: a returned pass with three pages.
C4_Witness ==
    Done /\ Len(pages) >= 3

\* ---- entity projection
\* the number of characters of the document
DocLength == Len(ConcatText(tokens))

\* the entity a record of a page stands for: its span made absolute again
AbsEntity(page, r) ==
    LET line == page.lines[r.line_idx + 1]
    IN [text |-> r.text, type |-> r.type,
        start |-> r.start + line.offset, end |-> r.end + line.offset]

\* the records of a page that stand for entity e
RecordsOf(page, e) ==
    { k \in DOMAIN page.entities : AbsEntity(page, page.entities[k]) = e }

\* how often e occurs in the entity list
Occurrences(e) == Cardinality({ j \in DOMAIN entities : entities[j] = e })

\* the number of records for e in the first n pages
RECURSIVE RecordsUpTo(_, _)
RecordsUpTo(n, e) ==
    IF n = 0 THEN 0
    ELSE RecordsUpTo(n - 1, e) + Cardinality(RecordsOf(pages[n], e))

\* [start, end) and the line's [offset, offset + length) share a position
Intersects(e, line) ==
    e.start < line.offset + line.length /\ line.offset < e.end

\* the page holds the line that covers position x
PageHolds(page, x) ==
    \E k \in DOMAIN page.lines :
        page.lines[k].offset <= x /\ x < page.lines[k].offset + page.lines[k].length

\* an entity that lies within the document
InDocument(e) == e.start < e.end /\ e.end <= DocLength

C6_NoEntityLost ==
    Done =>
        \A j \in DOMAIN entities :
            (\E k \in DOMAIN AllLines(pages) : Intersects(entities[j], AllLines(pages)[k]))
                => \E p \in DOMAIN pages : RecordsOf(pages[p], entities[j]) # {}

\* C6 witness: a returned pass with a recorded entity that starts before a line
\* and ends after it, and that reaches beyond the end of the document.
C6_Witness ==
    /\ Done
    /\ \E j \in DOMAIN entities :
           /\ entities[j].end > DocLength
           /\ \E k \in DOMAIN AllLines(pages) :
                  /\ entities[j].start < AllLines(pages)[k].offset
                  /\ entities[j].end > AllLines(pages)[k].offset + AllLines(pages)[k].length
           /\ \E p \in DOMAIN pages : RecordsOf(pages[p], entities[j]) # {}

\* C7: every record of every page carries the text and the type of an entity of the
\* input, its start and end less the offset of a line L of the page (not clipped
\* to the line), and as line_idx the zero-based position of L, where L matches the
\* entity and no line of the page before L does.
C7_RecordFields ==
    \A p \in DOMAIN pages :
        \A k \in DOMAIN pages[p].entities :
            LET r == pages[p].entities[k]
                lines == pages[p].lines
            IN /\ r.line_idx + 1 \in DOMAIN lines
               /\ \E j \in DOMAIN entities :
                      LET e == entities[j]
                          L == lines[r.line_idx + 1]
                      IN /\ r.text = e.text
                         /\ r.type = e.type
                         /\ r.start = e.start - L.offset
                         /\ r.end = e.end - L.offset
                         /\ EntityMatchesLine(e, L)
                         /\ \A b \in 1..r.line_idx : ~EntityMatchesLine(e, lines[b])

\* C7 witness: a returned pass with a record on the second line of a page whose
\* relative end is beyond the end of that line.
C7_Witness ==
    /\ Done
    /\ \E p \in DOMAIN pages :
           \E k \in DOMAIN pages[p].entities :
               LET r == pages[p].entities[k]
               IN /\ r.line_idx >= 1
                  /\ r.end > pages[p].lines[r.line_idx + 1].length

\* ---- offsets and rejected inputs
\* the tokens are ordered by start and do not overlap
TokensOrdered ==
    \A k \in 1..(Len(tokens) - 1) : tokens[k].end <= tokens[k + 1].start

\* the tokens are sorted by start
TokensSorted ==
    \A k \in 1..(Len(tokens) - 1) : tokens[k].start <= tokens[k + 1].start

\* C8 as stated: for a token stream ordered by start and without overlap, the offset
\* of every closed line is the start of the first token of that line.
C8_OffsetIsFirstTokenStart ==
    TokensOrdered =>
        \A k \in DOMAIN EmittedLines :
            EmittedLines[k].offset = EmittedLines[k].tokens[1].start

\* C9 as stated: with chars_per_line <= 0 or lines_per_page <= 0 the pass produces
\* no page and does not return pages.
C9_RejectsBadConfig ==
    (chars_per_line <= 0 \/ lines_per_page <= 0) =>
        (pages = <<>> /\ outcome # "returned")

\* C10 as stated: a pass given tokens not sorted by start, or an entity whose end is
\* smaller than its start, does not return pages.
C10_RejectsMalformedInput ==
    (~TokensSorted \/ \E j \in DOMAIN entities : entities[j].end < entities[j].start) =>
        outcome # "returned"

\* ---- packing, continued
\* the token lists of a list of lines, joined
RECURSIVE ConcatTokens(_)
ConcatTokens(lines) ==
    IF lines = <<>> THEN <<>>
    ELSE ConcatTokens(SubSeq(lines, 1, Len(lines) - 1)) \o lines[Len(lines)].tokens

\* the sum of the lengths of a list of lines
RECURSIVE SumLengths(_)
SumLengths(lines) ==
    IF lines = <<>> THEN 0
    ELSE SumLengths(SubSeq(lines, 1, Len(lines) - 1)) + lines[Len(lines)].length

\* a token longer than a line
Oversized(token) == Len(token.text) > chars_per_line

\* C11: with a positive lines_per_page, in the returned pages every token longer
\* than chars_per_line is the only token of its line, which has the token's text;
\* there are as many such lines as oversized tokens; no line and no page is empty;
\* and a stream of one oversized token gives one page with one line of that token.
C11_OversizedOwnLine ==
    (Done /\ lines_per_page > 0) =>
        LET lines == AllLines(pages)
        IN /\ \A k \in DOMAIN lines :
                  \A n \in DOMAIN lines[k].tokens :
                      Oversized(lines[k].tokens[n]) =>
                          /\ lines[k].tokens = <<lines[k].tokens[n]>>
                          /\ lines[k].text = lines[k].tokens[n].text
           /\ Cardinality({ k \in DOMAIN lines : Oversized(lines[k].tokens[1]) })
                  = Cardinality({ n \in DOMAIN tokens : Oversized(tokens[n]) })
           /\ \A k \in DOMAIN lines : lines[k].length >= 1 /\ lines[k].tokens # <<>>
           /\ \A p \in DOMAIN pages : pages[p].lines # <<>>
           /\ (Len(tokens) = 1 /\ Oversized(tokens[1])) =>
                  /\ Len(pages) = 1
                  /\ Len(pages[1].lines) = 1
                  /\ pages[1].lines[1].tokens = tokens

\* C11 witness: a returned pass, chars_per_line and lines_per_page positive, with an
\* oversized token after a fitting one, followed by a second oversized token that
\* opens a new page.
C11_Witness ==
    /\ Done
    /\ chars_per_line > 0
    /\ lines_per_page > 0
    /\ Len(tokens) = 3
    /\ ~Oversized(tokens[1])
    /\ Oversized(tokens[2])
    /\ Oversized(tokens[3])
    /\ Len(pages) = 3

\* C12: in the returned pages the token lists of all lines, joined in page order and
\* line order, are the input token sequence: every token is in exactly one line,
\* in its place, and every line holds a contiguous run of the stream.
C12_TokenOrder ==
    Done => ConcatTokens(AllLines(pages)) = tokens

\* C12 witness: a returned pass of three tokens, not sorted by start, in two lines.
C12_Witness ==
    /\ Done
    /\ Len(tokens) = 3
    /\ tokens[1].start > tokens[2].start
    /\ Len(AllLines(pages)) = 2

\* C13: the total_chars of every page, closed or open, is the sum of the lengths of
\* the lines it holds, at every step of the pass.
C13_TotalChars ==
    /\ \A p \in DOMAIN pages : pages[p].total_chars = SumLengths(pages[p].lines)
    /\ current_page.total_chars = SumLengths(current_page.lines)

\* C13 witness: while the loop is running, a closed page that holds two lines of
\* different lengths.
C13_Witness ==
    /\ pc = "loop"
    /\ pages # <<>>
    /\ Len(pages[1].lines) = 2
    /\ pages[1].lines[1].length # pages[1].lines[2].length
    /\ pages[1].total_chars = 3

\* the reference greedy packer: a token starts a new line exactly when the current
\* line is not empty and the token does not fit into it
RECURSIVE GreedyPack(_, _, _)
GreedyPack(toks, cur, cpl) ==
    IF toks = <<>> THEN (IF cur = <<>> THEN <<>> ELSE <<cur>>)
    ELSE IF cur # <<>> /\ Len(ConcatText(cur)) + Len(Head(toks).text) > cpl
         THEN <<cur>> \o GreedyPack(Tail(toks), <<Head(toks)>>, cpl)
         ELSE GreedyPack(Tail(toks), Append(cur, Head(toks)), cpl)

\* C18: the lines of the returned pages hold the token runs of the reference
\* greedy packer, and of two consecutive lines the length of the first plus the
\* length of the first token of the second exceeds chars_per_line.
C18_GreedyLines ==
    Done =>
        LET lines == AllLines(pages)
        IN /\ [k \in DOMAIN lines |-> lines[k].tokens]
                  = GreedyPack(tokens, <<>>, chars_per_line)
           /\ \A k \in 1..(Len(lines) - 1) :
                  lines[k].length + Len(lines[k + 1].tokens[1].text) > chars_per_line

\* C18 witness: a returned pass with a line that is exactly full and a line after
\* it.
C18_Witness ==
    /\ Done
    /\ chars_per_line > 0
    /\ \E k \in 1..(Len(AllLines(pages)) - 1) :
           /\ AllLines(pages)[k].length = chars_per_line
           /\ Len(AllLines(pages)[k].tokens) = 2

\* ---- the overlap test and the punctuation rule
\* C19 as stated: for every entity with start < end and every line of the returned
\* pages, the projector's test is true exactly when the entity's range and the
\* line's range share a position.
C19_TestIsOverlap ==
    Done =>
        \A j \in DOMAIN entities :
            entities[j].start < entities[j].end =>
                \A k \in DOMAIN AllLines(pages) :
                    EntityMatchesLine(entities[j], AllLines(pages)[k])
                        <=> Intersects(entities[j], AllLines(pages)[k])

\* the line sizes (in tokens) the greedy rule gives, from the token lengths alone
RECURSIVE GreedyCounts(_, _, _, _)
GreedyCounts(lens, cur_len, cur_count, cpl) ==
    IF lens = <<>> THEN (IF cur_count = 0 THEN <<>> ELSE <<cur_count>>)
    ELSE IF cur_count > 0 /\ cur_len + Head(lens) > cpl
         THEN <<cur_count>> \o GreedyCounts(Tail(lens), Head(lens), 1, cpl)
         ELSE GreedyCounts(Tail(lens), cur_len + Head(lens), cur_count + 1, cpl)

\* C20: the line boundaries of the returned pages are a function of the token
\* lengths and chars_per_line alone, whether or not a token is a punctuation mark
\* of no_break_punctuation; a mark begins a line whenever it did not fit into the
\* line before.
C20_PunctuationNotEnforced ==
    Done =>
        LET lines == AllLines(pages)
        IN /\ [k \in DOMAIN lines |-> Len(lines[k].tokens)]
                  = GreedyCounts([n \in DOMAIN tokens |-> Len(tokens[n].text)],
                                 0, 0, chars_per_line)
           /\ \A k \in DOMAIN lines :
                  \A n \in 2..Len(lines[k].tokens) :
                      lines[k].tokens[n].text \in no_break_punctuation =>
                          Len(ConcatText(SubSeq(lines[k].tokens, 1, n))) <= chars_per_line

\* C20 witness: a returned pass with a line after the first that begins with a
\* punctuation mark, the line before it being full.
C20_Witness ==
    /\ Done
    /\ chars_per_line > 0
    /\ \E k \in 2..Len(AllLines(pages)) :
           /\ AllLines(pages)[k].tokens[1].text \in no_break_punctuation
           /\ AllLines(pages)[k - 1].length = chars_per_line

\* ---- the layout document and the text output
\* C14: in a built layout document, metadata.total_pages is the number of pages of
\* the document and metadata.total_chars is the sum of the lengths of the input
\* tokens' texts, which is the sum of the lengths of all lines.
C14_Metadata ==
    pc = "built" =>
        /\ layout_data.metadata.total_pages = Len(layout_data.pages)
        /\ layout_data.pages = pages
        /\ layout_data.metadata.total_chars = DocLength
        /\ layout_data.metadata.total_chars = SumLengths(AllLines(layout_data.pages))

\* C14 witness: a built document of several pages whose last page holds fewer
\* characters than the document.
C14_Witness ==
    /\ pc = "built"
    /\ layout_data.metadata.total_pages >= 2
    /\ layout_data.metadata.total_chars = 3
    /\ layout_data.pages[Len(layout_data.pages)].total_chars = 1

\* n as decimal digits, zero-padded to width w
RECURSIVE ZeroPad(_, _)
ZeroPad(n, w) == IF Len(Str(n)) >= w THEN Str(n) ELSE <<"0">> \o ZeroPad(n, w - 1)

\* the marked lines of one page: <PAGE_NNN_START>, <LINE_NNN_MM> text, <PAGE_NNN_END>
MarkedPage(page) ==
    << <<"<PAGE_">> \o ZeroPad(page.page_id, 3) \o <<"_START>">> >>
    \o [k \in 1..Len(page.lines) |->
            <<"<LINE_">> \o ZeroPad(page.page_id, 3) \o <<"_">> \o ZeroPad(k, 2)
                \o <<">", " ">> \o page.lines[k].text]
    \o << <<"<PAGE_">> \o ZeroPad(page.page_id, 3) \o <<"_END>">> >>

RECURSIVE MarkedLines(_)
MarkedLines(ps) ==
    IF ps = <<>> THEN <<>>
    ELSE MarkedLines(SubSeq(ps, 1, Len(ps) - 1)) \o MarkedPage(ps[Len(ps)])

\* the non-blank entries of a list of lines
RECURSIVE NonBlank(_)
NonBlank(ls) ==
    IF ls = <<>> THEN <<>>
    ELSE NonBlank(SubSeq(ls, 1, Len(ls) - 1))
             \o (IF ls[Len(ls)] = <<>> THEN <<>> ELSE <<ls[Len(ls)]>>)

\* C15 as stated: _generate_txt_content returns newline-joined text whose non-blank
\* lines are, page by page, the start marker, one marked entry per line and the end
\* marker.
C15_TxtMarkers ==
    pc \in {"txt", "failed"} =>
        /\ txt_content.type = "str"
        /\ NonBlank(Split(txt_content.value, {"\n"})) = MarkedLines(pages)

\* ---- format_text
\* C17 as stated: every line of the string returned by format_text is at most
\* max_line_length long, and the empty text gives the empty string.
C17_LineLength ==
    fmt_result.type = "str" =>
        /\ \A k \in DOMAIN Split(fmt_result.value, {"\n"}) :
               Len(Split(fmt_result.value, {"\n"})[k]) <= max_line_length
        /\ fmt_text = <<>> => fmt_result.value = <<>>

\* ---- passes on one instance
\* C16: every pass that returns on an instance, after the instance's first pass and
\* whether it ran alone or interleaved with another, returns the pages of the first
\* pass, which ran alone on the fresh instance with the same tokens, entities,
\* chars_per_line and lines_per_page; its first page has page_id 1 and its first
\* line offset 0.
C16_NoRetainedState ==
    first_pass.set =>
        /\ pc = "done" => pages = first_pass.pages
        /\ other.pc = "done" => other.pages = first_pass.pages
        /\ pc = "done" /\ pages # <<>> =>
               /\ pages[1].page_id = 1
               /\ AllLines(pages) # <<>> => AllLines(pages)[1].offset = 0

\* C16 witness: two passes after the first have returned, one of them suspended and
\* resumed; the pages are several, with an entity record.
C16_Witness ==
    /\ first_pass.set
    /\ passes = 2
    /\ pc = "done"
    /\ other.pc = "done"
    /\ Len(pages) >= 2
    /\ pages[1].entities # <<>>

\* ---- the order of the pass and its frame
\* C21: within a pass, projection starts only after the last token is consumed and
\* the last page appended; an appended page keeps its page_id, lines and total_chars
\* in every later step; a page's entities field is assigned only by the projector's
\* step for that page, which is taken once per page before the pass returns.
C21_AppendedPagesFrozen ==
    [][/\ Len(pages') >= Len(pages)
       /\ \A p \in DOMAIN pages :
              /\ pages'[p].page_id = pages[p].page_id
              /\ pages'[p].lines = pages[p].lines
              /\ pages'[p].total_chars = pages[p].total_chars
              /\ pages'[p].entities # pages[p].entities =>
                     pc = "project" /\ page_idx = p - 1 /\ page_idx' = p
       /\ \A p \in DOMAIN pages' : p \notin DOMAIN pages => pages'[p].entities = <<>>
       /\ pc = "loop" => \A p \in DOMAIN pages : pages[p].entities = <<>>
       /\ pc' = "project" =>
              /\ i' = Len(tokens)
              /\ pc = "project" => Len(pages') = Len(pages) /\ page_idx' = page_idx + 1
              /\ pc # "project" => page_idx' = 0
       /\ pc' = "done" => page_idx' = Len(pages')]_vars

\* C21 witness: the projector has assigned the entities of the first of several
\* pages and not yet those of the last.
C21_Witness ==
    /\ pc = "project"
    /\ Len(pages) >= 2
    /\ page_idx = 1
    /\ pages[1].entities # <<>>
    /\ pages[Len(pages)].entities = <<>>

\* C22: every step of a pass leaves the token list and the entity list as they
\* were, and from the call on chars_per_line and lines_per_page too.
C22_InputsUnchanged ==
    [][/\ tokens' = tokens
       /\ entities' = entities
       /\ pc # "new" => chars_per_line' = chars_per_line /\ lines_per_page' = lines_per_page]_vars

\* C22 witness: a returned pass over several tokens and an entity that was recorded
\* on its last page.
C22_Witness ==
    /\ Done
    /\ Len(tokens) >= 2
    /\ entities # <<>>
    /\ pages[Len(pages)].entities # <<>>

\* ---- termination
\* C24: a called pass returns; every iteration of the packing loop takes the token
\* at index i and moves i on by one, so no token is taken twice or passed over and
\* the loop is left at i = len(tokens), and after it the projector visits every
\* page before the return.
C24_Terminates ==
    /\ (pc = "loop") ~> (pc = "done" /\ outcome = "returned" /\ i = Len(tokens)
                            /\ page_idx = Len(pages))
    /\ [](i <= Len(tokens))
    /\ [][pc = "loop" /\ pc' = "loop" =>
              /\ i < Len(tokens)
              /\ i' = i + 1
              /\ current_line_tokens'[Len(current_line_tokens')] = tokens[i + 1]]_vars
    /\ [][pc = "loop" /\ pc' # "loop" => i = Len(tokens) /\ pc' = "project"]_vars

\* C24 witness: a pass that returned after as many iterations as the bound on the
\* tokens allows, with several pages projected.
C24_Witness ==
    /\ Done
    /\ Len(tokens) = MaxTokens
    /\ i = Len(tokens)
    /\ page_idx >= 2

\* ---- lines, continued
\* C25: at every step, every line placed on a page (closed or open) holds at least
\* one token and at least one character; the input tokens are non-empty.
C25_NoEmptyLine ==
    LET lines == EmittedLines
    IN \A k \in DOMAIN lines :
           /\ Len(lines[k].tokens) >= 1
           /\ lines[k].length >= 1
           /\ Len(lines[k].text) >= 1

\* C25 witness: the first token was too long for a line, so the break came on an
\* empty line; the pass went on and placed that token's line.
C25_Witness ==
    /\ pc = "loop"
    /\ i = 2
    /\ chars_per_line > 0
    /\ Oversized(tokens[1])
    /\ Len(EmittedLines) = 1
    /\ EmittedLines[1].text = tokens[1].text

\* C27: at every step the placed lines tile the output: the first has offset 0 and
\* every later one, also the first of a new page, has the offset of the line before
\* it plus that line's length; in the returned pages the last line ends at the
\* total number of characters. The tokens' own start values are free.
C27_OffsetsTile ==
    LET lines == EmittedLines
    IN /\ lines # <<>> => lines[1].offset = 0
       /\ \A k \in 2..Len(lines) :
              lines[k].offset = lines[k - 1].offset + lines[k - 1].length
       /\ Done /\ lines # <<>> =>
              lines[Len(lines)].offset + lines[Len(lines)].length = DocLength

\* C27 witness: returned pages whose tokens do not start at 0 nor follow each other,
\* with a line on a second page.
C27_Witness ==
    /\ Done
    /\ lines_per_page > 0
    /\ Len(tokens) >= 2
    /\ Len(pages) >= 2
    /\ tokens[1].start # 0
    /\ tokens[2].start # tokens[1].end
    /\ pages[2].lines[1].offset = pages[1].lines[Len(pages[1].lines)].offset
                                      + pages[1].lines[Len(pages[1].lines)].length
    /\ pages[2].lines[1].offset > 0

\* ---- the records of a page
\* the input entities that match a line of the page
MatchingEntities(page) ==
    { j \in DOMAIN entities :
          \E k \in DOMAIN page.lines : EntityMatchesLine(entities[j], page.lines[k]) }

\* the r-th smallest element of a set of numbers
Rth(S, r) == CHOOSE j \in S : Cardinality({ x \in S : x < j }) = r - 1

\* the first line of the page that the entity matches
FirstMatch(page, e) ==
    CHOOSE k \in DOMAIN page.lines :
        /\ EntityMatchesLine(e, page.lines[k])
        /\ \A m \in 1..(k - 1) : ~EntityMatchesLine(e, page.lines[m])

\* C28: on every returned page, the records are one per input entity that matches a
\* line of the page, in the order of the entity list, each attributed to the first
\* line of the page that its entity matches.
C28_OneRecordPerPage ==
    Done =>
        \A p \in DOMAIN pages :
            LET page == pages[p]
                M == MatchingEntities(page)
            IN /\ Len(page.entities) = Cardinality(M)
               /\ \A r \in DOMAIN page.entities :
                      LET e == entities[Rth(M, r)]
                          k == FirstMatch(page, e)
                      IN /\ page.entities[r].line_idx = k - 1
                         /\ page.entities[r].text = e.text
                         /\ page.entities[r].type = e.type
                         /\ page.entities[r].start = e.start - page.lines[k].offset
                         /\ page.entities[r].end = e.end - page.lines[k].offset

\* C28 witness: a returned page with two records of two different entities, the
\* first of which matches two lines of the page and is attributed to the first.
C28_Witness ==
    /\ Done
    /\ entities[1] # entities[2]
    /\ \E p \in DOMAIN pages :
           /\ Len(pages[p].entities) = 2
           /\ Cardinality({ k \in DOMAIN pages[p].lines :
                                EntityMatchesLine(entities[1], pages[p].lines[k]) }) >= 2
           /\ pages[p].entities[1].line_idx = 0
           /\ pages[p].entities[2].line_idx = 1
           /\ AbsEntity(pages[p], pages[p].entities[2]) = entities[2]

\* every line of the page lies strictly inside the entity's range
PageInside(page, e) ==
    \A k \in DOMAIN page.lines :
        e.start < page.lines[k].offset
            /\ page.lines[k].offset + page.lines[k].length < e.end

\* C29: in the returned pages, an entity whose start lies in a line of page p and
\* whose end lies in a line of a later page q has one record on page p and one on
\* page q, the latter with a negative relative start, and no record on a page
\* between them whose lines all lie strictly inside the entity's range.
C29_PerPageProjection ==
    Done =>
        \A j \in DOMAIN entities :
            \A p, q \in DOMAIN pages :
                LET e == entities[j]
                IN (/\ e.start < e.end
                    /\ p < q
                    /\ PageHolds(pages[p], e.start)
                    /\ PageHolds(pages[q], e.end - 1))
                   => /\ Cardinality(RecordsOf(pages[p], e)) = Occurrences(e)
                      /\ Cardinality(RecordsOf(pages[q], e)) = Occurrences(e)
                      /\ \A r \in RecordsOf(pages[q], e) : pages[q].entities[r].start < 0
                      /\ \A m \in (p + 1)..(q - 1) :
                             PageInside(pages[m], e) => RecordsOf(pages[m], e) = {}

\* C29 witness: an entity starts on the first of three returned pages and ends on
\* the third; the second page, inside the entity, has no record and the third has
\* one with a negative start.
C29_Witness ==
    /\ Done
    /\ Len(pages) = 3
    /\ Len(entities) = 1
    /\ PageHolds(pages[1], entities[1].start)
    /\ PageHolds(pages[3], entities[1].end - 1)
    /\ pages[2].lines # <<>>
    /\ PageInside(pages[2], entities[1])
    /\ Len(pages[1].entities) = 1
    /\ pages[2].entities = <<>>
    /\ Len(pages[3].entities) = 1
    /\ pages[3].entities[1].start < 0

\* ---- the tokens built from the annotation
\* the word stands in the text at some index from `from` on
Occurs(t, word, from) ==
    \E p \in from..Len(t) :
        /\ p + Len(word) <= Len(t)
        /\ \A c \in 1..Len(word) : t[p + c] = word[c]

\* the end of the token before the k-th, 0 for the first
PreviousEnd(k) == IF k = 1 THEN 0 ELSE tokens[k - 1].end

\* C23: the tokens built by _build_tokens are one per word, each with end = start +
\* len(text) and start >= the end of the token before it; a word that does not occur
\* in the text at or after the previous token's end starts exactly there, and the
\* call returns without an error.
C23_OffsetsMonotone ==
    annotation.built =>
        /\ outcome # "error"
        /\ Len(tokens) = Len(annotation.ws)
        /\ \A k \in DOMAIN tokens :
               /\ tokens[k].text = annotation.ws[k]
               /\ tokens[k].end = tokens[k].start + Len(tokens[k].text)
               /\ tokens[k].start >= PreviousEnd(k)
               /\ ~Occurs(annotation.text, tokens[k].text, PreviousEnd(k)) =>
                      tokens[k].start = PreviousEnd(k)

\* C23 witness: a first word found after a gap, then a word that occurs in the text
\* only before the first token's end and is placed at that end.
C23_Witness ==
    /\ annotation.built
    /\ Len(tokens) = 2
    /\ tokens[1].start > 0
    /\ Occurs(annotation.text, tokens[2].text, 0)
    /\ ~Occurs(annotation.text, tokens[2].text, tokens[1].end)
    /\ tokens[2].start = tokens[1].end

\* the recognized entities with the span of the k-th token
SameSpan(k) ==
    { j \in DOMAIN annotation.ner :
          annotation.ner[j].idx = <<tokens[k].start, tokens[k].end>> }

\* C26: a built token has is_entity true exactly when a recognized entity has the
\* token's (start, end), and then the type of such an entity as entity_type;
\* otherwise entity_type is unset. Sharing only a part of the span does not mark it.
C26_EntityFlag ==
    annotation.built =>
        \A k \in DOMAIN tokens :
            /\ tokens[k].is_entity <=> SameSpan(k) # {}
            /\ SameSpan(k) # {} =>
                   \E j \in SameSpan(k) : tokens[k].entity_type = annotation.ner[j].ner
            /\ SameSpan(k) = {} => tokens[k].entity_type = "None"

\* C26 witness: of two built tokens the second has the span of the recognized entity
\* and is marked with its type, the first is unmarked.
C26_Witness ==
    /\ annotation.built
    /\ Len(tokens) = 2
    /\ Len(annotation.ner) = 1
    /\ ~tokens[1].is_entity
    /\ tokens[1].entity_type = "None"
    /\ tokens[2].is_entity
    /\ tokens[2].entity_type = annotation.ner[1].ner
    /\ annotation.ner[1].idx = <<tokens[2].start, tokens[2].end>>

====
